---- MODULE Spec2Model ----
(***************************************************************************)
(* Resource and dependency tracking of pypeliner (pypeliner/resources.py): *)
(* Dependency, UserResource, TempFileResource, TempObjResource,            *)
(* TempObjManager, obj_equal and resolve_user_filename, over a model of    *)
(* the filesystem and of the stat cache (pypeliner.fstatcache).            *)
(*                                                                         *)
(* One evaluation context tracks one resource (variable kind): resources   *)
(* of different kinds use disjoint paths, so their operations commute.     *)
(***************************************************************************)
EXTENDS Integers, Sequences, FiniteSets, TLC

VARIABLES
    kind,     \* which resource this evaluation context tracks
    fs,       \* the filesystem: path -> [kind, content, mtime]
    cache,    \* pypeliner.fstatcache: path -> [cached, exists, mtime]
    now,      \* the filesystem clock
    last,     \* the last call: its name, argument, outcome and the state before it
    call,     \* resolve_user_filename, obj_equal: the arguments of the call
    result,   \* resolve_user_filename, obj_equal: what the call returned or raised
    run       \* a method run statement by statement: where it is, what it has done

vars == <<kind, fs, cache, now, last, call, result, run>>

(***************************************************************************)
(* Bounds                                                                  *)
(***************************************************************************)
MaxTime == 3
MaxContent == 2
MaxLen == 4

Times == 0..MaxTime
Contents == 1..MaxContent

(***************************************************************************)
(* Python's None, as a createtime and as a returned object                 *)
(***************************************************************************)
None == -1

\* errno values of OSError / IOError
ENOENT == 2
EISDIR == 21

(***************************************************************************)
(* Paths: a filename is a sequence of parts, filename + suffix is \o       *)
(***************************************************************************)
UserResource_filename == <<"out">>
TempFileResource_filename == <<"tmp">>

\* mutant: the placeholder under the suffix without the underscore
placeholder_filename_plain == TempFileResource_filename \o <<".placeholder">>

placeholder_filename == TempFileResource_filename \o <<"._placeholder">>

TempObjManager_filename == <<"obj">>

\* TempObjResource.__init__: filename + ('._i', '._o')[is_input]; a bool
\* indexes the tuple as 0 / 1
TempObjResource_filename(filename, is_input) ==
    filename \o <<(<<"._i", "._o">>)[(IF is_input THEN 1 ELSE 0) + 1]>>

input_filename == TempObjResource_filename(TempObjManager_filename, TRUE)
output_filename == TempObjResource_filename(TempObjManager_filename, FALSE)

\* the path a job stages its output at before finalize(write_filename)
write_filename(filename) == filename \o <<".tmp">>

Paths ==
    { UserResource_filename, write_filename(UserResource_filename),
      TempFileResource_filename, placeholder_filename,
      write_filename(TempFileResource_filename),
      TempFileResource_filename \o <<".placeholder">>,
      TempFileResource_filename \o <<"._placeholder">>,
      TempObjManager_filename \o <<"._i">>,
      TempObjManager_filename \o <<"._o">> }

(***************************************************************************)
(* The filesystem                                                          *)
(***************************************************************************)
Absent == [kind |-> "absent", content |-> 0, mtime |-> None]
File(c, t) == [kind |-> "file", content |-> c, mtime |-> t]
Dir(t) == [kind |-> "dir", content |-> 0, mtime |-> t]

\* os.rename(src, dst): errno of the OSError, 0 when it succeeds
os_rename(f, src, dst) ==
    IF f[src].kind = "absent" THEN [fs |-> f, errno |-> ENOENT]
    ELSE IF f[dst].kind = "dir" THEN [fs |-> f, errno |-> EISDIR]
    ELSE [fs |-> [f EXCEPT ![dst] = f[src], ![src] = Absent], errno |-> 0]

\* os.remove(p)
os_remove(f, p) ==
    IF f[p].kind = "absent" THEN [fs |-> f, errno |-> ENOENT]
    ELSE IF f[p].kind = "dir" THEN [fs |-> f, errno |-> EISDIR]
    ELSE [fs |-> [f EXCEPT ![p] = Absent], errno |-> 0]

\* pypeliner.helpers.touch(p): open(p, 'a') then os.utime(p, None)
helpers_touch(f, p, t) ==
    IF f[p].kind = "dir" THEN [fs |-> f, errno |-> EISDIR]
    ELSE IF f[p].kind = "absent" THEN [fs |-> [f EXCEPT ![p] = File(0, t)], errno |-> 0]
    ELSE [fs |-> [f EXCEPT ![p].mtime = t], errno |-> 0]

\* pypeliner.helpers.saferemove(p): os.remove that forgives a missing file
helpers_saferemove(f, p) ==
    IF f[p].kind = "absent" THEN [fs |-> f, errno |-> 0] ELSE os_remove(f, p)

\* mutant: a copystat that copies nothing
shutil_copystat_nothing(f, src, dst) == [fs |-> f, errno |-> 0]

\* shutil.copystat(src, dst): the times of src onto dst
shutil_copystat(f, src, dst) ==
    IF f[src].kind = "absent" \/ f[dst].kind = "absent" THEN [fs |-> f, errno |-> ENOENT]
    ELSE [fs |-> [f EXCEPT ![dst].mtime = f[src].mtime], errno |-> 0]

\* with open(p, 'wb') as f: pickle.dump(obj, f)
open_wb(f, p, c, t) ==
    IF f[p].kind = "dir" THEN [fs |-> f, errno |-> EISDIR]
    ELSE [fs |-> [f EXCEPT ![p] = File(c, t)], errno |-> 0]

\* open(p, 'rb'): the errno of the IOError, 0 when the file opens
open_rb(f, p) ==
    IF f[p].kind = "absent" THEN ENOENT
    ELSE IF f[p].kind = "dir" THEN EISDIR
    ELSE 0

(***************************************************************************)
(* pypeliner.fstatcache                                                    *)
(***************************************************************************)
NoEntry == [cached |-> FALSE, exists |-> FALSE, mtime |-> None]

os_stat(f, p) == [cached |-> TRUE, exists |-> f[p].kind # "absent", mtime |-> f[p].mtime]

invalidate_cached_state(c, p) == [c EXCEPT ![p] = NoEntry]

\* the cache after a query of p: one stat per path between invalidations
get_stat(c, f, p) == IF c[p].cached THEN c ELSE [c EXCEPT ![p] = os_stat(f, p)]

get_exists(c, f, p) == get_stat(c, f, p)[p].exists

get_createtime(c, f, p) == get_stat(c, f, p)[p].mtime

(***************************************************************************)
(* What a call leaves behind                                               *)
(***************************************************************************)
Returns(f, c, t, ret) ==
    [fs |-> f, cache |-> c, now |-> t, exc |-> "none", errno |-> 0, ret |-> ret]

Raises(f, c, t, exc, errno) ==
    [fs |-> f, cache |-> c, now |-> t, exc |-> exc, errno |-> errno, ret |-> None]

Bool(b) == IF b THEN 1 ELSE 0

(***************************************************************************)
(* Dependency                                                              *)
(***************************************************************************)
Dependency_exists(f, c, t) == Returns(f, c, t, Bool(TRUE))

Dependency_cleanup(f, c, t) == Returns(f, c, t, None)

(***************************************************************************)
(* UserResource                                                            *)
(***************************************************************************)
UserResource_exists(f, c, t) ==
    Returns(f, get_stat(c, f, UserResource_filename), t,
            Bool(get_exists(c, f, UserResource_filename)))

UserResource_createtime(f, c, t) ==
    Returns(f, get_stat(c, f, UserResource_filename), t,
            get_createtime(c, f, UserResource_filename))

UserResource_touch(f, c, t) ==
    LET c1 == get_stat(c, f, UserResource_filename)
        c2 == invalidate_cached_state(c1, UserResource_filename)
        r  == helpers_touch(f, UserResource_filename, t)
    IN  IF ~get_exists(c, f, UserResource_filename)
        THEN Raises(f, c1, t, "Exception", 0)
        ELSE IF r.errno # 0 THEN Raises(f, c2, t, "IOError", r.errno)
        ELSE Returns(r.fs, c2, t, None)

\* mutant: the rename without the invalidation before it
UserResource_finalize_stale(f, c, t, w) ==
    LET r == os_rename(f, w, UserResource_filename)
    IN  IF r.errno # 0 THEN Raises(f, c, t, "OutputMissingException", 0)
        ELSE Returns(r.fs, c, t, None)

UserResource_finalize(f, c, t, w) ==
    LET c1 == invalidate_cached_state(c, UserResource_filename)
        r  == os_rename(f, w, UserResource_filename)
    IN  IF r.errno # 0 THEN Raises(f, c1, t, "OutputMissingException", 0)
        ELSE Returns(r.fs, c1, t, None)

\* mutant: a cleanup that removes the user's output as a temporary file's
UserResource_cleanup_removes(f, c, t) ==
    LET c1 == get_stat(c, f, UserResource_filename)
        c2 == invalidate_cached_state(c1, UserResource_filename)
        r  == os_remove(f, UserResource_filename)
    IN  IF ~get_exists(c, f, UserResource_filename) THEN Returns(f, c1, t, None)
        ELSE IF r.errno # 0 THEN Raises(f, c2, t, "OSError", r.errno)
        ELSE Returns(r.fs, c2, t, None)

\* UserResource defines no cleanup: Dependency.cleanup is inherited
UserResource_cleanup(f, c, t) == Dependency_cleanup(f, c, t)

(***************************************************************************)
(* TempFileResource                                                        *)
(***************************************************************************)
\* mutant: the placeholder is created again without the times of the primary
TempFileResource_save_createtime_no_copystat(f, c, t) ==
    LET c1 == invalidate_cached_state(c, placeholder_filename)
        r1 == helpers_saferemove(f, placeholder_filename)
        r2 == helpers_touch(r1.fs, placeholder_filename, t)
    IN  IF r1.errno # 0 THEN [fs |-> f, cache |-> c1, exc |-> "OSError", errno |-> r1.errno]
        ELSE IF r2.errno # 0
        THEN [fs |-> r1.fs, cache |-> c1, exc |-> "IOError", errno |-> r2.errno]
        ELSE [fs |-> r2.fs, cache |-> c1, exc |-> "none", errno |-> 0]

\* the placeholder is removed, created again at time t, and given the times
\* of the primary file
TempFileResource_save_createtime(f, c, t) ==
    LET c1 == invalidate_cached_state(c, placeholder_filename)
        r1 == helpers_saferemove(f, placeholder_filename)
        r2 == helpers_touch(r1.fs, placeholder_filename, t)
        r3 == shutil_copystat(r2.fs, TempFileResource_filename, placeholder_filename)
    IN  IF r1.errno # 0 THEN [fs |-> f, cache |-> c1, exc |-> "OSError", errno |-> r1.errno]
        ELSE IF r2.errno # 0
        THEN [fs |-> r1.fs, cache |-> c1, exc |-> "IOError", errno |-> r2.errno]
        ELSE IF r3.errno # 0
        THEN [fs |-> r2.fs, cache |-> c1, exc |-> "OSError", errno |-> r3.errno]
        ELSE [fs |-> r3.fs, cache |-> c1, exc |-> "none", errno |-> 0]

TempFileResource_exists(f, c, t) ==
    Returns(f, get_stat(c, f, TempFileResource_filename), t,
            Bool(get_exists(c, f, TempFileResource_filename)))

\* mutant: createtime without the placeholder to fall back on
TempFileResource_createtime_primary(f, c, t) ==
    LET c1 == get_stat(c, f, TempFileResource_filename)
    IN  IF get_exists(c, f, TempFileResource_filename)
        THEN Returns(f, c1, t, get_createtime(c1, f, TempFileResource_filename))
        ELSE Returns(f, c1, t, None)

TempFileResource_createtime(f, c, t) ==
    LET c1 == get_stat(c, f, TempFileResource_filename)
        c2 == get_stat(c1, f, placeholder_filename)
    IN  IF get_exists(c, f, TempFileResource_filename)
        THEN Returns(f, c1, t, get_createtime(c1, f, TempFileResource_filename))
        ELSE IF get_exists(c1, f, placeholder_filename)
        THEN Returns(f, c2, t, get_createtime(c2, f, placeholder_filename))
        ELSE Returns(f, c2, t, None)

\* d: the time that passes between the touch of the primary file and the
\* re-creation of the placeholder
\* mutant: a touch that refuses a missing primary file, as UserResource.touch
TempFileResource_touch_strict(f, c, t, d) ==
    LET c1 == get_stat(c, f, TempFileResource_filename)
        c2 == invalidate_cached_state(c1, TempFileResource_filename)
        r  == helpers_touch(f, TempFileResource_filename, t)
        s  == TempFileResource_save_createtime(r.fs, c2, t + d)
    IN  IF ~get_exists(c, f, TempFileResource_filename)
        THEN Raises(f, c1, t, "Exception", 0)
        ELSE IF r.errno # 0 THEN Raises(f, c2, t, "IOError", r.errno)
        ELSE IF s.exc # "none" THEN Raises(s.fs, s.cache, t + d, s.exc, s.errno)
        ELSE Returns(s.fs, s.cache, t + d, None)

TempFileResource_touch(f, c, t, d) ==
    LET c1 == get_stat(c, f, TempFileResource_filename)
        c2 == invalidate_cached_state(c1, TempFileResource_filename)
        r  == helpers_touch(f, TempFileResource_filename, t)
        s  == TempFileResource_save_createtime(r.fs, c2, t + d)
        c3 == invalidate_cached_state(c1, placeholder_filename)
        p  == helpers_touch(f, placeholder_filename, t)
    IN  IF get_exists(c, f, TempFileResource_filename)
        THEN IF r.errno # 0 THEN Raises(f, c2, t, "IOError", r.errno)
             ELSE IF s.exc # "none" THEN Raises(s.fs, s.cache, t + d, s.exc, s.errno)
             ELSE Returns(s.fs, s.cache, t + d, None)
        ELSE IF p.errno # 0 THEN Raises(f, c3, t, "IOError", p.errno)
             ELSE Returns(p.fs, c3, t, None)

TempFileResource_finalize(f, c, t, d, w) ==
    LET c1 == invalidate_cached_state(c, TempFileResource_filename)
        r  == os_rename(f, w, TempFileResource_filename)
        s  == TempFileResource_save_createtime(r.fs, c1, t + d)
    IN  IF r.errno # 0 THEN Raises(f, c1, t, "OutputMissingException", 0)
        ELSE IF s.exc # "none" THEN Raises(s.fs, s.cache, t + d, s.exc, s.errno)
        ELSE Returns(s.fs, s.cache, t + d, None)

\* mutant: a cleanup that removes the placeholder with the primary file
TempFileResource_cleanup_all(f, c, t) ==
    LET c1 == get_stat(c, f, TempFileResource_filename)
        c2 == invalidate_cached_state(
                  invalidate_cached_state(c1, TempFileResource_filename),
                  placeholder_filename)
        r  == os_remove(f, TempFileResource_filename)
        r2 == helpers_saferemove(r.fs, placeholder_filename)
    IN  IF ~get_exists(c, f, TempFileResource_filename) THEN Returns(f, c1, t, None)
        ELSE IF r.errno # 0 THEN Raises(f, c2, t, "OSError", r.errno)
        ELSE Returns(r2.fs, c2, t, None)

TempFileResource_cleanup(f, c, t) ==
    LET c1 == get_stat(c, f, TempFileResource_filename)
        c2 == invalidate_cached_state(c1, TempFileResource_filename)
        r  == os_remove(f, TempFileResource_filename)
    IN  IF ~get_exists(c, f, TempFileResource_filename) THEN Returns(f, c1, t, None)
        ELSE IF r.errno # 0 THEN Raises(f, c2, t, "OSError", r.errno)
        ELSE Returns(r.fs, c2, t, None)

(***************************************************************************)
(* Python objects: the values a job hands to TempObjManager.finalize.      *)
(* eq is what obj.__eq__ does: "missing" (AttributeError), "declines"      *)
(* (NotImplemented), "typed" (the payloads of two objects of one class,    *)
(* NotImplemented otherwise), "numeric" (the payloads of two numbers),     *)
(* "never" (always False, as NaN).  dict is the content of obj.__dict__,   *)
(* None when the object has none.                                          *)
(***************************************************************************)
Objects ==
    << [class |-> "int",   eq |-> "missing",  dict |-> None, num |-> TRUE,  payload |-> 1],
       [class |-> "int",   eq |-> "missing",  dict |-> None, num |-> TRUE,  payload |-> 2],
       [class |-> "float", eq |-> "numeric",  dict |-> None, num |-> TRUE,  payload |-> 1],
       [class |-> "float", eq |-> "never",    dict |-> None, num |-> TRUE,  payload |-> 0],
       [class |-> "Rec",   eq |-> "missing",  dict |-> 1,    num |-> FALSE, payload |-> 0],
       [class |-> "Rec",   eq |-> "declines", dict |-> 2,    num |-> FALSE, payload |-> 0],
       [class |-> "Key",   eq |-> "typed",    dict |-> 1,    num |-> FALSE, payload |-> 1],
       [class |-> "Slots", eq |-> "declines", dict |-> None, num |-> FALSE, payload |-> 0] >>

NoneType == [class |-> "NoneType", eq |-> "missing", dict |-> None, num |-> FALSE, payload |-> 0]

ObjectIds == 1..Len(Objects)

\* an object in memory: what it is (v) and which instance it is (inst)
Attr(o) == IF o.v = None THEN NoneType ELSE Objects[o.v]

Live(v) == [v |-> v, inst |-> "job"]

pickle_dump(o) == o.v

pickle_load(bytes) == [v |-> bytes, inst |-> "loaded"]

\* obj1.__eq__(obj2): "True", "False", "NotImplemented" or "AttributeError"
eq_hook(o1, o2) ==
    LET a == Attr(o1)
        b == Attr(o2)
    IN  CASE a.eq = "missing"  -> "AttributeError"
          [] a.eq = "declines" -> "NotImplemented"
          [] a.eq = "never"    -> "False"
          [] a.eq = "numeric"  ->
                IF b.num THEN (IF a.payload = b.payload THEN "True" ELSE "False")
                ELSE "NotImplemented"
          [] a.eq = "typed"    ->
                IF a.class = b.class
                THEN (IF a.payload = b.payload THEN "True" ELSE "False")
                ELSE "NotImplemented"

\* obj1 == obj2: the hook of obj1, then the reflected hook of obj2, then the
\* default comparison (numbers by value, anything else by identity)
raw_equal(o1, o2) ==
    LET h1 == eq_hook(o1, o2)
        h2 == eq_hook(o2, o1)
    IN  IF h1 \in {"True", "False"} THEN h1 = "True"
        ELSE IF h2 \in {"True", "False"} THEN h2 = "True"
        ELSE IF Attr(o1).num /\ Attr(o2).num THEN Attr(o1).payload = Attr(o2).payload
        ELSE o1 = o2

\* mutant: a hook that declines taken as the answer false
obj_equal_declined_false(obj1, obj2) ==
    LET equal == eq_hook(obj1, obj2)
    IN  IF equal # "AttributeError" THEN equal = "True"
        ELSE IF Attr(obj1).class # Attr(obj2).class THEN FALSE
        ELSE IF Attr(obj1).dict # None /\ Attr(obj2).dict # None
        THEN Attr(obj1).dict = Attr(obj2).dict
        ELSE raw_equal(obj1, obj2)

obj_equal(obj1, obj2) ==
    LET equal == eq_hook(obj1, obj2)
    IN  IF equal \in {"True", "False"} THEN equal = "True"
        ELSE IF Attr(obj1).class # Attr(obj2).class THEN FALSE
        ELSE IF Attr(obj1).dict # None /\ Attr(obj2).dict # None
        THEN Attr(obj1).dict = Attr(obj2).dict
        ELSE raw_equal(obj1, obj2)

(***************************************************************************)
(* TempObjResource and TempObjManager                                      *)
(***************************************************************************)
TempObjResource_exists(f, c, t, is_input) ==
    LET p == TempObjResource_filename(TempObjManager_filename, is_input)
    IN  Returns(f, get_stat(c, f, p), t, Bool(get_exists(c, f, p)))

TempObjResource_createtime(f, c, t, is_input) ==
    LET p == TempObjResource_filename(TempObjManager_filename, is_input)
    IN  Returns(f, get_stat(c, f, p), t, get_createtime(c, f, p))

TempObjResource_touch(f, c, t, is_input) ==
    LET p  == TempObjResource_filename(TempObjManager_filename, is_input)
        c1 == get_stat(c, f, p)
        c2 == invalidate_cached_state(c1, p)
        r  == helpers_touch(f, p, t)
    IN  IF ~get_exists(c, f, p) THEN Raises(f, c1, t, "Exception", 0)
        ELSE IF r.errno # 0 THEN Raises(f, c2, t, "IOError", r.errno)
        ELSE Returns(r.fs, c2, t, None)

\* the except clause passes on errno 2 and has no branch that raises again
TempObjManager_get_obj(f, c, t) ==
    LET e == open_rb(f, input_filename)
    IN  IF e = 0 THEN Returns(f, c, t, pickle_load(f[input_filename].content).v)
        ELSE IF e = ENOENT THEN Returns(f, c, t, None)
        ELSE Returns(f, c, t, None)

\* mutant: the input slot rewritten whatever it holds
TempObjManager_finalize_always(f, c, t, obj) ==
    LET w1 == open_wb(f, output_filename, pickle_dump(obj), t)
        c1 == get_stat(c, w1.fs, input_filename)
        w2 == open_wb(w1.fs, input_filename, pickle_dump(obj), t)
        c2 == invalidate_cached_state(
                  invalidate_cached_state(c1, input_filename), output_filename)
    IN  IF w1.errno # 0 THEN Raises(f, c, t, "IOError", w1.errno)
        ELSE IF w2.errno # 0 THEN Raises(w1.fs, c1, t, "IOError", w2.errno)
        ELSE Returns(w2.fs, c2, t, None)

\* mutant: the input slot written only when it is missing, never compared
TempObjManager_finalize_no_compare(f, c, t, obj) ==
    LET w1 == open_wb(f, output_filename, pickle_dump(obj), t)
        c1 == get_stat(c, w1.fs, input_filename)
        w2 == open_wb(w1.fs, input_filename, pickle_dump(obj), t)
        c2 == invalidate_cached_state(
                  invalidate_cached_state(c1, input_filename), output_filename)
    IN  IF w1.errno # 0 THEN Raises(f, c, t, "IOError", w1.errno)
        ELSE IF ~get_exists(c, w1.fs, input_filename)
        THEN IF w2.errno # 0 THEN Raises(w1.fs, c1, t, "IOError", w2.errno)
             ELSE Returns(w2.fs, c2, t, None)
        ELSE Returns(w1.fs, c2, t, None)

TempObjManager_finalize(f, c, t, obj) ==
    LET w1 == open_wb(f, output_filename, pickle_dump(obj), t)
        c1 == get_stat(c, w1.fs, input_filename)
        stored == pickle_load(TempObjManager_get_obj(w1.fs, c1, t).ret)
        w2 == open_wb(w1.fs, input_filename, pickle_dump(obj), t)
        c2 == invalidate_cached_state(
                  invalidate_cached_state(c1, input_filename), output_filename)
    IN  IF w1.errno # 0 THEN Raises(f, c, t, "IOError", w1.errno)
        ELSE IF ~get_exists(c, w1.fs, input_filename) \/ ~obj_equal(obj, stored)
        THEN IF w2.errno # 0 THEN Raises(w1.fs, c1, t, "IOError", w2.errno)
             ELSE Returns(w2.fs, c2, t, None)
        ELSE Returns(w1.fs, c2, t, None)

(***************************************************************************)
(* The evaluation context: one resource, the job that stages its output,   *)
(* and the clock                                                           *)
(***************************************************************************)
Kinds == {"dep", "user", "temp", "obj"}

NoCall == [name |-> <<>>, node |-> <<>>, fnames |-> <<>>, has_fnames |-> FALSE,
           template |-> <<>>, has_template |-> FALSE]

NoResult == [exc |-> "pending", filename |-> <<>>, arg |-> <<>>]

\* no method is run statement by statement
Idle == [op |-> "none", arg |-> 0, pc |-> 0, events |-> <<>>]

\* the paths of a resource that the user may have made a directory
DirCapable(k) ==
    CASE k = "user" -> {UserResource_filename}
      [] k = "temp" -> {TempFileResource_filename}
      [] k = "obj"  -> {input_filename}
      [] OTHER      -> {}

\* the staging path of the tracked resource
Staging ==
    IF kind = "user" THEN write_filename(UserResource_filename)
    ELSE write_filename(TempFileResource_filename)

Init ==
    /\ kind \in Kinds
    /\ \E D \in SUBSET DirCapable(kind) :
           fs = [p \in Paths |-> IF p \in D THEN Dir(0) ELSE Absent]
    /\ cache = [p \in Paths |-> NoEntry]
    /\ now = 0
    /\ last = [op |-> "init", arg |-> 0, exc |-> "none", errno |-> 0, ret |-> None,
               fs |-> fs, cache |-> cache, now |-> 0, marked |-> FALSE]
    /\ call = NoCall
    /\ result = NoResult
    /\ run = Idle

\* a call of op with argument arg that leaves out behind; marks: whether a
\* successful call of op confirms the temp file resource
Do(op, arg, out, marks) ==
    /\ out.now <= MaxTime
    /\ fs' = out.fs
    /\ cache' = out.cache
    /\ now' = out.now
    /\ last' = [op |-> op, arg |-> arg, exc |-> out.exc, errno |-> out.errno,
                ret |-> out.ret, fs |-> fs, cache |-> cache, now |-> now,
                marked |-> last.marked \/ (marks /\ out.exc = "none")]
    /\ UNCHANGED <<kind, call, result, run>>

Tick ==
    /\ kind \in Kinds
    /\ Do("tick", 0, Returns(fs, cache, now + 1, None), FALSE)

\* the job writes its output at the staging path
JobWrite ==
    /\ kind \in {"user", "temp"}
    /\ \E c \in Contents :
           Do("job", c, Returns([fs EXCEPT ![Staging] = File(c, now)], cache, now, None),
              FALSE)

DepExists == kind = "dep" /\ Do("exists", 0, Dependency_exists(fs, cache, now), FALSE)

DepCleanup == kind = "dep" /\ Do("cleanup", 0, Dependency_cleanup(fs, cache, now), FALSE)

UserExists == kind = "user" /\ Do("exists", 0, UserResource_exists(fs, cache, now), FALSE)

UserCreatetime ==
    kind = "user" /\ Do("createtime", 0, UserResource_createtime(fs, cache, now), FALSE)

UserTouch == kind = "user" /\ Do("touch", 0, UserResource_touch(fs, cache, now), FALSE)

UserFinalize ==
    kind = "user" /\ Do("finalize", 0, UserResource_finalize(fs, cache, now, Staging), FALSE)

UserCleanup == kind = "user" /\ Do("cleanup", 0, UserResource_cleanup(fs, cache, now), FALSE)

TempExists == kind = "temp" /\ Do("exists", 0, TempFileResource_exists(fs, cache, now), FALSE)

TempCreatetime ==
    kind = "temp" /\ Do("createtime", 0, TempFileResource_createtime(fs, cache, now), FALSE)

TempTouch ==
    /\ kind = "temp"
    /\ \E d \in 0..1 : Do("touch", d, TempFileResource_touch(fs, cache, now, d), TRUE)

TempFinalize ==
    /\ kind = "temp"
    /\ \E d \in 0..1 :
           Do("finalize", d, TempFileResource_finalize(fs, cache, now, d, Staging), TRUE)

TempCleanup == kind = "temp" /\ Do("cleanup", 0, TempFileResource_cleanup(fs, cache, now), FALSE)

ObjExists ==
    /\ kind = "obj"
    /\ \E i \in BOOLEAN :
           Do("exists", Bool(i), TempObjResource_exists(fs, cache, now, i), FALSE)

ObjCreatetime ==
    /\ kind = "obj"
    /\ \E i \in BOOLEAN :
           Do("createtime", Bool(i), TempObjResource_createtime(fs, cache, now, i), FALSE)

ObjTouch ==
    /\ kind = "obj"
    /\ \E i \in BOOLEAN :
           Do("touch", Bool(i), TempObjResource_touch(fs, cache, now, i), FALSE)

ObjGet == kind = "obj" /\ Do("get_obj", 0, TempObjManager_get_obj(fs, cache, now), FALSE)

ObjFinalize ==
    /\ kind = "obj"
    /\ \E v \in ObjectIds :
           Do("finalize", v, TempObjManager_finalize(fs, cache, now, Live(v)), FALSE)

Next ==
    \/ Tick
    \/ JobWrite
    \/ DepExists
    \/ DepCleanup
    \/ UserExists
    \/ UserCreatetime
    \/ UserTouch
    \/ UserFinalize
    \/ UserCleanup
    \/ TempExists
    \/ TempCreatetime
    \/ TempTouch
    \/ TempFinalize
    \/ TempCleanup
    \/ ObjExists
    \/ ObjCreatetime
    \/ ObjTouch
    \/ ObjGet
    \/ ObjFinalize

Spec == Init /\ [][Next]_vars

(***************************************************************************)
(* resolve_user_filename.  A string is a sequence of characters; a node is *)
(* a sequence of <<axis, value>> pairs; fnames is a dict, a function from  *)
(* keys to filenames.                                                      *)
(***************************************************************************)
Alphabet == {"a", "b", "{", "}"}

RECURSIVE StringsOfLen(_)
StringsOfLen(n) ==
    IF n = 0 THEN {<<>>}
    ELSE {Append(s, ch) : s \in StringsOfLen(n - 1), ch \in Alphabet}

Strings == UNION {StringsOfLen(n) : n \in 0..MaxLen}

AxisNames == {<<"a">>, <<"b">>}
AxisValues == {<<"x">>, <<"y">>}

Nodes ==
    {<<>>}
    \cup {<<<<a, v>>>> : a \in AxisNames, v \in AxisValues}
    \cup {<<<<a1, v1>>, <<a2, v2>>>> :
              <<a1, a2>> \in {p \in AxisNames \X AxisNames : p[1] # p[2]},
              <<v1, v2>> \in AxisValues \X AxisValues}

\* dict(node)
NodeDict(node) ==
    [a \in {node[i][1] : i \in DOMAIN node} |->
        node[CHOOSE i \in DOMAIN node :
                 /\ node[i][1] = a
                 /\ \A j \in DOMAIN node : node[j][1] = a => j <= i][2]]

\* sub in s, of two strings
Contains(s, sub) ==
    \E i \in 1..(Len(s) - Len(sub) + 1) : SubSeq(s, i, i + Len(sub) - 1) = sub

Resolved(filename) == [exc |-> "none", filename |-> filename, arg |-> <<>>]

Failed(exc, arg) == [exc |-> exc, filename |-> <<>>, arg |-> arg]

\* the result r of formatting the rest of a string, after the text before it
After(text, r) == IF r.exc = "none" THEN Resolved(text \o r.filename) ELSE r

\* the first brace of s after position i, 0 when there is none
NextBrace(s, i) ==
    IF \E j \in (i + 1)..Len(s) : s[j] \in {"{", "}"}
    THEN CHOOSE j \in (i + 1)..Len(s) :
             /\ s[j] \in {"{", "}"}
             /\ \A k \in (i + 1)..(j - 1) : s[k] \notin {"{", "}"}
    ELSE 0

\* s.format(**kw) from position i on: {{ and }} are literal braces, {key} is
\* kw[key] (KeyError when kw lacks it, IndexError for {}), any other brace is
\* a ValueError
RECURSIVE str_format(_, _, _)
str_format(s, i, kw) ==
    IF i > Len(s) THEN Resolved(<<>>)
    ELSE IF s[i] = "{"
    THEN IF i < Len(s) /\ s[i + 1] = "{" THEN After(<<"{">>, str_format(s, i + 2, kw))
         ELSE LET j == NextBrace(s, i)
                  key == SubSeq(s, i + 1, j - 1)
              IN  IF j = 0 \/ s[j] = "{" THEN Failed("ValueError", <<>>)
                  ELSE IF key = <<>> THEN Failed("IndexError", <<>>)
                  ELSE IF key \notin DOMAIN kw THEN Failed("KeyError", key)
                  ELSE After(kw[key], str_format(s, j + 1, kw))
    ELSE IF s[i] = "}"
    THEN IF i < Len(s) /\ s[i + 1] = "}" THEN After(<<"}">>, str_format(s, i + 2, kw))
         ELSE Failed("ValueError", <<>>)
    ELSE After(<<s[i]>>, str_format(s, i + 1, kw))

\* the first axis of the node that is not in the template, <<>> when each is
_check_template(template, node) ==
    LET missing == {i \in DOMAIN node : ~Contains(template, node[i][1])}
    IN  IF missing = {} THEN Resolved(<<>>)
        ELSE Failed("ValueError",
                    node[CHOOSE i \in missing : \A j \in missing : i <= j][1])

\* the key as the tuple of the values, for a node of one axis too
fname_key_tuple(node) == <<"tuple", [i \in DOMAIN node |-> node[i][2]]>>

\* the key of the fnames lookup: the value of the only axis, else the tuple
fname_key(node) ==
    LET key == [i \in DOMAIN node |-> node[i][2]]
    IN  IF Len(key) = 1 THEN <<"str", key[1]>> ELSE <<"tuple", key>>

dict_get(d, k, default) == IF k \in DOMAIN d THEN d[k] ELSE default

resolve_user_filename(name, node, fnames, has_fnames, template, has_template) ==
    IF has_fnames THEN Resolved(dict_get(fnames, fname_key(node), name))
    ELSE IF has_template
    THEN IF _check_template(template, node).exc # "none"
         THEN _check_template(template, node)
         ELSE str_format(template, 1, NodeDict(node))
    ELSE IF _check_template(name, node).exc # "none" THEN _check_template(name, node)
    ELSE LET r == str_format(name, 1, NodeDict(node))
         IN  IF r.exc = "KeyError" THEN Failed("ValueError", r.arg) ELSE r

\* the tables, names and templates the calls are drawn from
Tables ==
    { [k \in {<<"str", <<"x">>>>} |-> <<"t", "1">>],
      [k \in {<<"tuple", <<<<"x">>, <<"y">>>>>>, <<"tuple", <<>>>>} |-> <<"t", "2">>],
      [k \in {<<"tuple", <<<<"x">>>>>>} |-> <<"t", "3">>] }

Names == {<<"a">>, <<"{", "a", "}">>}

Calls ==
    {[name |-> n, node |-> nd, fnames |-> <<>>, has_fnames |-> FALSE,
      template |-> <<>>, has_template |-> FALSE] : n \in Strings, nd \in Nodes}
    \cup
    {[name |-> n, node |-> nd, fnames |-> <<>>, has_fnames |-> FALSE,
      template |-> t, has_template |-> TRUE] : n \in Names, nd \in Nodes, t \in Strings}
    \cup
    {[name |-> n, node |-> nd, fnames |-> tb, has_fnames |-> TRUE,
      template |-> t, has_template |-> ht] :
          n \in Names, nd \in Nodes, tb \in Tables, t \in {<<"{", "a", "}">>},
          ht \in BOOLEAN}

InitResolve ==
    /\ kind = "resolve"
    /\ fs = [p \in Paths |-> Absent]
    /\ cache = [p \in Paths |-> NoEntry]
    /\ now = 0
    /\ last = [op |-> "init", arg |-> 0, exc |-> "none", errno |-> 0, ret |-> None,
               fs |-> fs, cache |-> cache, now |-> 0, marked |-> FALSE]
    /\ call \in Calls
    /\ result = NoResult
    /\ run = Idle

Resolve ==
    /\ kind = "resolve"
    /\ result.exc = "pending"
    /\ result' = resolve_user_filename(call.name, call.node, call.fnames, call.has_fnames,
                                       call.template, call.has_template)
    /\ UNCHANGED <<kind, fs, cache, now, last, call, run>>

NextResolve == Resolve

SpecResolve == InitResolve /\ [][NextResolve]_vars

(***************************************************************************)
(* obj_equal as a function of two objects in memory: any two of the values *)
(* and None, the same instance or two instances                            *)
(***************************************************************************)
Instances == [v : ObjectIds \cup {None}, inst : {"job", "loaded"}]

InitEqual ==
    /\ kind = "equal"
    /\ fs = [p \in Paths |-> Absent]
    /\ cache = [p \in Paths |-> NoEntry]
    /\ now = 0
    /\ last = [op |-> "init", arg |-> 0, exc |-> "none", errno |-> 0, ret |-> None,
               fs |-> fs, cache |-> cache, now |-> 0, marked |-> FALSE]
    /\ call \in [obj1 : Instances, obj2 : Instances]
    /\ result = [exc |-> "pending", equal |-> FALSE]
    /\ run = Idle

Equal ==
    /\ kind = "equal"
    /\ result.exc = "pending"
    /\ result' = [exc |-> "none", equal |-> obj_equal(call.obj1, call.obj2)]
    /\ UNCHANGED <<kind, fs, cache, now, last, call, run>>

NextEqual == Equal

SpecEqual == InitEqual /\ [][NextEqual]_vars

(***************************************************************************)
(* The methods statement by statement.  A method is the sequence of its    *)
(* statements; a statement is what it does (i), the paths it works on (p,  *)
(* q), the statements a test goes on with when it is true (a) and false    *)
(* (b), and the exception raised when it fails (x).                        *)
(***************************************************************************)
Stmt(i, p, q, a, b, x) == [i |-> i, p |-> p, q |-> q, a |-> a, b |-> b, x |-> x]

Invalidate(p) == Stmt("invalidate", p, p, 0, 0, "")
IfExists(p, a, b) == Stmt("exists", p, p, a, b, "")
Touch(p) == Stmt("touch", p, p, 0, 0, "IOError")
Rename(src, dst) == Stmt("rename", src, dst, 0, 0, "OutputMissingException")
Saferemove(p) == Stmt("saferemove", p, p, 0, 0, "OSError")
Copystat(src, dst) == Stmt("copystat", src, dst, 0, 0, "OSError")
Remove(p) == Stmt("remove", p, p, 0, 0, "OSError")
Write(p) == Stmt("write", p, p, 0, 0, "IOError")
IfEqual(a, b) == Stmt("compare", input_filename, input_filename, a, b, "")
Return == Stmt("return", <<>>, <<>>, 0, 0, "")
Raise(x) == Stmt("raise", <<>>, <<>>, 0, 0, x)

UserResource_exists_code == <<IfExists(UserResource_filename, 2, 2), Return>>

UserResource_touch_code ==
    << IfExists(UserResource_filename, 2, 5),
       Invalidate(UserResource_filename),
       Touch(UserResource_filename),
       Return,
       Raise("Exception") >>

UserResource_finalize_code(w) ==
    << Invalidate(UserResource_filename),
       Rename(w, UserResource_filename),
       Return >>

\* mutant: the placeholder invalidated after it is written
TempFileResource_save_createtime_code_late ==
    << Saferemove(placeholder_filename),
       Touch(placeholder_filename),
       Copystat(TempFileResource_filename, placeholder_filename),
       Invalidate(placeholder_filename) >>

TempFileResource_save_createtime_code ==
    << Invalidate(placeholder_filename),
       Saferemove(placeholder_filename),
       Touch(placeholder_filename),
       Copystat(TempFileResource_filename, placeholder_filename) >>

TempFileResource_exists_code == <<IfExists(TempFileResource_filename, 2, 2), Return>>

TempFileResource_createtime_code ==
    << IfExists(TempFileResource_filename, 3, 2),
       IfExists(placeholder_filename, 3, 3),
       Return >>

TempFileResource_touch_code ==
    << IfExists(TempFileResource_filename, 2, 9),
       Invalidate(TempFileResource_filename),
       Touch(TempFileResource_filename) >>
    \o TempFileResource_save_createtime_code
    \o << Return,
          Invalidate(placeholder_filename),
          Touch(placeholder_filename),
          Return >>

TempFileResource_finalize_code(w) ==
    << Invalidate(TempFileResource_filename),
       Rename(w, TempFileResource_filename) >>
    \o TempFileResource_save_createtime_code
    \o << Return >>

TempFileResource_cleanup_code ==
    << IfExists(TempFileResource_filename, 2, 4),
       Invalidate(TempFileResource_filename),
       Remove(TempFileResource_filename),
       Return >>

TempObjResource_exists_code(is_input) ==
    <<IfExists(TempObjResource_filename(TempObjManager_filename, is_input), 2, 2), Return>>

TempObjResource_touch_code(is_input) ==
    << IfExists(TempObjResource_filename(TempObjManager_filename, is_input), 2, 5),
       Invalidate(TempObjResource_filename(TempObjManager_filename, is_input)),
       Touch(TempObjResource_filename(TempObjManager_filename, is_input)),
       Return,
       Raise("Exception") >>

TempObjManager_finalize_code ==
    << Write(output_filename),
       IfExists(input_filename, 3, 4),
       IfEqual(5, 4),
       Write(input_filename),
       Invalidate(input_filename),
       Invalidate(output_filename),
       Return >>

\* the job that writes its output at the staging path w
Job_code(w) == <<Write(w), Return>>

Code(op, arg) ==
    CASE op = "job" -> Job_code(Staging)
      [] op = "UserResource.exists" -> UserResource_exists_code
      [] op = "UserResource.touch" -> UserResource_touch_code
      [] op = "UserResource.finalize" -> UserResource_finalize_code(Staging)
      [] op = "TempFileResource.exists" -> TempFileResource_exists_code
      [] op = "TempFileResource.createtime" -> TempFileResource_createtime_code
      [] op = "TempFileResource.touch" -> TempFileResource_touch_code
      [] op = "TempFileResource.finalize" -> TempFileResource_finalize_code(Staging)
      [] op = "TempFileResource.cleanup" -> TempFileResource_cleanup_code
      [] op = "TempObjResource.exists" -> TempObjResource_exists_code(arg = 1)
      [] op = "TempObjResource.touch" -> TempObjResource_touch_code(arg = 1)
      [] op = "TempObjManager.finalize" -> TempObjManager_finalize_code

\* the values handed to finalize: an int and the float that compares equal
\* to it, which the int does not compare equal to
StepObjects == {v \in ObjectIds : Objects[v].num /\ Objects[v].payload = 1}

\* the methods of the resource of kind k, each with its argument
Methods(k) ==
    CASE k = "user" ->
             {<<"job", c>> : c \in Contents}
             \cup {<<"UserResource.exists", 0>>, <<"UserResource.touch", 0>>,
                   <<"UserResource.finalize", 0>>}
      [] k = "temp" ->
             {<<"job", c>> : c \in Contents}
             \cup {<<"TempFileResource.exists", 0>>, <<"TempFileResource.createtime", 0>>,
                   <<"TempFileResource.touch", 0>>, <<"TempFileResource.finalize", 0>>,
                   <<"TempFileResource.cleanup", 0>>}
      [] k = "obj" ->
             {<<"TempObjResource.exists", Bool(i)>> : i \in BOOLEAN}
             \cup {<<"TempObjResource.touch", Bool(i)>> : i \in BOOLEAN}
             \cup {<<"TempObjManager.finalize", v>> : v \in StepObjects}

StepKinds == {"user", "temp", "obj"}

InitSteps == Init /\ kind \in StepKinds

\* the statement the running method is at
Current == Code(run.op, run.arg)[run.pc]

Running(i) == kind \in StepKinds /\ run.pc # 0 /\ Current.i = i

\* the statement is done, the method goes on with statement pc
Goto(pc) ==
    /\ run' = [run EXCEPT !.pc = pc,
                          !.events = Append(@, [i |-> Current.i, p |-> Current.p,
                                                q |-> Current.q])]
    /\ last' = last

\* the method ends: it returns (exc = "none") or raises exc
Ends(exc, errno) ==
    /\ run' = [run EXCEPT !.pc = 0,
                          !.events = Append(@, [i |-> IF exc = "none" THEN "return"
                                                      ELSE "raise",
                                                p |-> <<>>, q |-> <<>>])]
    /\ last' = [last EXCEPT !.exc = exc, !.errno = errno]

\* a statement that leaves the filesystem r.fs, or fails with r.errno
Mutates(r) ==
    IF r.errno = 0 THEN fs' = r.fs /\ Goto(run.pc + 1)
    ELSE fs' = fs /\ Ends(Current.x, r.errno)

Begin ==
    /\ kind \in StepKinds
    /\ run.pc = 0
    /\ \E m \in Methods(kind) :
           /\ run' = [op |-> m[1], arg |-> m[2], pc |-> 1, events |-> <<>>]
           /\ last' = [op |-> m[1], arg |-> m[2], exc |-> "running", errno |-> 0,
                       ret |-> None, fs |-> fs, cache |-> cache, now |-> now,
                       marked |-> last.marked]
    /\ UNCHANGED <<kind, fs, cache, now, call, result>>

StepInvalidate ==
    /\ Running("invalidate")
    /\ cache' = invalidate_cached_state(cache, Current.p)
    /\ Goto(run.pc + 1)
    /\ UNCHANGED <<kind, fs, now, call, result>>

StepExists ==
    /\ Running("exists")
    /\ cache' = get_stat(cache, fs, Current.p)
    /\ Goto(IF get_exists(cache, fs, Current.p) THEN Current.a ELSE Current.b)
    /\ UNCHANGED <<kind, fs, now, call, result>>

StepTouch ==
    /\ Running("touch")
    /\ Mutates(helpers_touch(fs, Current.p, now))
    /\ UNCHANGED <<kind, cache, now, call, result>>

StepRename ==
    /\ Running("rename")
    /\ Mutates(os_rename(fs, Current.p, Current.q))
    /\ UNCHANGED <<kind, cache, now, call, result>>

StepSaferemove ==
    /\ Running("saferemove")
    /\ Mutates(helpers_saferemove(fs, Current.p))
    /\ UNCHANGED <<kind, cache, now, call, result>>

StepCopystat ==
    /\ Running("copystat")
    /\ Mutates(shutil_copystat(fs, Current.p, Current.q))
    /\ UNCHANGED <<kind, cache, now, call, result>>

StepRemove ==
    /\ Running("remove")
    /\ Mutates(os_remove(fs, Current.p))
    /\ UNCHANGED <<kind, cache, now, call, result>>

\* the argument of the method pickled into the file, or the job's content
StepWrite ==
    /\ Running("write")
    /\ Mutates(open_wb(fs, Current.p, run.arg, now))
    /\ UNCHANGED <<kind, cache, now, call, result>>

StepCompare ==
    /\ Running("compare")
    /\ Goto(IF obj_equal(Live(run.arg),
                         pickle_load(TempObjManager_get_obj(fs, cache, now).ret))
            THEN Current.a ELSE Current.b)
    /\ UNCHANGED <<kind, fs, cache, now, call, result>>

StepReturn ==
    /\ Running("return")
    /\ Ends("none", 0)
    /\ UNCHANGED <<kind, fs, cache, now, call, result>>

StepRaise ==
    /\ Running("raise")
    /\ Ends(Current.x, 0)
    /\ UNCHANGED <<kind, fs, cache, now, call, result>>

\* time passes, between two statements too
StepTick ==
    /\ kind \in StepKinds
    /\ now < MaxTime
    /\ now' = now + 1
    /\ UNCHANGED <<kind, fs, cache, last, call, result, run>>

\* the process dies between two statements; the stat cache dies with it
Crash ==
    /\ kind \in StepKinds
    /\ run.pc # 0
    /\ run' = Idle
    /\ last' = [last EXCEPT !.exc = "crash"]
    /\ cache' = [p \in Paths |-> NoEntry]
    /\ UNCHANGED <<kind, fs, now, call, result>>

NextSteps ==
    \/ Begin
    \/ StepInvalidate
    \/ StepExists
    \/ StepTouch
    \/ StepRename
    \/ StepSaferemove
    \/ StepCopystat
    \/ StepRemove
    \/ StepWrite
    \/ StepCompare
    \/ StepReturn
    \/ StepRaise
    \/ StepTick
    \/ Crash

SpecSteps == InitSteps /\ [][NextSteps]_vars

(***************************************************************************)
(* Claims                                                                  *)
(***************************************************************************)
\* what the tracked file resource answers in the current state
Filename == IF kind = "user" THEN UserResource_filename ELSE TempFileResource_filename

ExistsNow ==
    IF kind = "user" THEN UserResource_exists(fs, cache, now).ret
    ELSE TempFileResource_exists(fs, cache, now).ret

Finalized == kind \in {"user", "temp"} /\ last.op = "finalize"

C2_CreatetimeSurvivesCleanup ==
    kind = "temp" =>
        /\ last.marked => TempFileResource_createtime(fs, cache, now).ret # None
        /\ (last.marked /\ last.op = "cleanup" /\ last.fs[TempFileResource_filename].kind = "file")
               => /\ TempFileResource_exists(fs, cache, now).ret = 0
                  /\ fs[placeholder_filename].kind = "file"
                  /\ TempFileResource_createtime(fs, cache, now).ret
                         = fs[placeholder_filename].mtime

\* a cleanup that removed the primary file of a confirmed resource
C2_Witness ==
    /\ kind = "temp"
    /\ last.marked
    /\ last.op = "cleanup"
    /\ last.exc = "none"
    /\ last.fs[TempFileResource_filename].kind = "file"
    /\ fs[TempFileResource_filename].kind = "absent"

\* whether finalize(v) finds the input slot absent or holding a different value
InputDiffers(f, v) ==
    \/ f[input_filename].kind = "absent"
    \/ ~obj_equal(Live(v), pickle_load(f[input_filename].content))

\* C3: TempObjManager.finalize(value) always rewrites the output slot with
\* value; it rewrites the input slot if and only if the slot was absent or its
\* deserialized content compares as different from value, and when the
\* comparison says equal, the input slot's bytes and time are as before.
\* (A finalize raises only when the input slot's path is a directory.)
C3_InputRewrittenIffDifferent ==
    (kind = "obj" /\ last.op = "finalize") =>
        /\ fs[output_filename] = File(last.arg, last.now)
        /\ last.exc # "none" <=> last.fs[input_filename].kind = "dir"
        /\ last.exc = "none" =>
               /\ InputDiffers(last.fs, last.arg) =>
                      fs[input_filename] = File(last.arg, last.now)
               /\ ~InputDiffers(last.fs, last.arg) =>
                      fs[input_filename] = last.fs[input_filename]

\* a later finalize of an equal value that left the older input slot alone
C3_Witness ==
    /\ kind = "obj"
    /\ last.op = "finalize"
    /\ last.exc = "none"
    /\ ~InputDiffers(last.fs, last.arg)
    /\ last.fs[input_filename].mtime < last.now
    /\ fs[input_filename] = last.fs[input_filename]
    /\ fs[output_filename].mtime = last.now

\* C4: TempFileResource.cleanup() deletes the primary file when it exists and
\* invalidates its cache entry, and never deletes or modifies the placeholder.
C4_CleanupKeepsPlaceholder ==
    (kind = "temp" /\ last.op = "cleanup") =>
        /\ fs[placeholder_filename] = last.fs[placeholder_filename]
        /\ last.fs[TempFileResource_filename].kind = "file" =>
               /\ last.exc = "none"
               /\ fs[TempFileResource_filename] = Absent
               /\ ~cache[TempFileResource_filename].cached

\* a cleanup that deleted the primary file next to an existing placeholder
C4_Witness ==
    /\ kind = "temp"
    /\ last.op = "cleanup"
    /\ last.fs[TempFileResource_filename].kind = "file"
    /\ last.cache[TempFileResource_filename].cached
    /\ fs[placeholder_filename].kind = "file"

\* C5: cleanup() of a Dependency or a UserResource is a no-op: it leaves the
\* filesystem and the stat cache as they were.
C5_CleanupNoOp ==
    (kind \in {"dep", "user"} /\ last.op = "cleanup") =>
        /\ last.exc = "none"
        /\ fs = last.fs
        /\ cache = last.cache

\* a cleanup of a UserResource whose output exists
C5_Witness ==
    /\ kind = "user"
    /\ last.op = "cleanup"
    /\ fs[UserResource_filename].kind = "file"
    /\ cache[UserResource_filename].cached

\* C6: touch() of a TempFileResource whose primary file exists never decreases
\* createtime(), and right after it the placeholder carries the time of the
\* primary file.
C6_TouchNeverDecreases ==
    (kind = "temp" /\ last.op = "touch" /\ last.fs[TempFileResource_filename].kind = "file") =>
        /\ last.exc = "none"
        /\ TempFileResource_createtime(fs, cache, now).ret
               >= TempFileResource_createtime(last.fs, last.cache, last.now).ret
        /\ fs[placeholder_filename].kind = "file"
        /\ fs[placeholder_filename].mtime = fs[TempFileResource_filename].mtime

\* a touch of an existing primary file during which time passed
C6_Witness ==
    /\ kind = "temp"
    /\ last.op = "touch"
    /\ last.fs[TempFileResource_filename].kind = "file"
    /\ last.arg = 1
    /\ fs[TempFileResource_filename].mtime > last.fs[TempFileResource_filename].mtime

\* C7 as stated: get_obj() returns the absent sentinel only when the input
\* slot does not exist; any other failure to open it raises.
C7_GetObjPropagates ==
    (kind = "obj" /\ last.op = "get_obj") =>
        /\ (last.exc = "none" /\ last.ret = None) => last.fs[input_filename].kind = "absent"
        /\ last.fs[input_filename].kind = "dir" =>
               (last.exc = "IOError" /\ last.errno = EISDIR)

\* C8 as stated: finalize raises OutputMissingError only when the staging path
\* does not exist; a rename that fails otherwise raises its own OSError.
C8_OutputMissingOnlyWhenMissing ==
    Finalized =>
        /\ last.exc = "OutputMissingException" => last.fs[Staging].kind = "absent"
        /\ (last.fs[Staging].kind = "file" /\ last.fs[Filename].kind = "dir") =>
               (last.exc = "OSError" /\ last.errno = EISDIR)

\* the file a touch of a UserResource or a TempObjResource is about
Touched ==
    IF kind = "user" THEN UserResource_filename
    ELSE TempObjResource_filename(TempObjManager_filename, last.arg = 1)

StatNow(p) == [exists |-> get_exists(cache, fs, p), mtime |-> get_createtime(cache, fs, p)]

\* C9: touch() of a UserResource or a TempObjResource whose file is missing
\* raises the touch-missing error and leaves the filesystem as it was; when
\* the file exists, touch() returns, sets the file's time, keeps its content,
\* and the next exists() / createtime() reflect the new time.
C9_TouchMissingFails ==
    (kind \in {"user", "obj"} /\ last.op = "touch") =>
        /\ last.fs[Touched].kind = "absent" =>
               /\ last.exc = "Exception"
               /\ fs = last.fs
        /\ last.fs[Touched].kind = "file" =>
               /\ last.exc = "none"
               /\ fs = [last.fs EXCEPT ![Touched].mtime = last.now]
               /\ StatNow(Touched) = [exists |-> TRUE, mtime |-> last.now]

\* the fields str.format substitutes in a template: the keys between braces
RECURSIVE Placeholders(_, _)
Placeholders(s, i) ==
    IF i > Len(s) THEN {}
    ELSE IF s[i] \in {"{", "}"} /\ i < Len(s) /\ s[i + 1] = s[i] THEN Placeholders(s, i + 2)
    ELSE IF s[i] = "{" /\ NextBrace(s, i) # 0 /\ s[NextBrace(s, i)] = "}"
    THEN {SubSeq(s, i + 1, NextBrace(s, i) - 1)} \cup Placeholders(s, NextBrace(s, i) + 1)
    ELSE Placeholders(s, i + 1)

\* the template a call without a table resolves: the template, else the name
TemplateOf(c) == IF c.has_template THEN c.template ELSE c.name

\* the axes of the node that the template has no placeholder for
Uncovered(c) ==
    {c.node[i][1] : i \in DOMAIN c.node} \ Placeholders(TemplateOf(c), 1)

\* C10 as stated: without a table, a template (or the name used as one) that
\* lacks the placeholder {axis} of an axis bound in the node is never resolved
\* to a path: the call fails with the template-format error naming such an axis.
C10_UncoveredAxisFails ==
    (kind = "resolve" /\ result.exc # "pending" /\ ~call.has_fnames /\ Uncovered(call) # {}) =>
        /\ result.exc = "ValueError"
        /\ result.arg \in Uncovered(call)

\* the placeholders of the template that the node binds no axis for
Unbound(c) ==
    (Placeholders(TemplateOf(c), 1) \ {<<>>}) \ {c.node[i][1] : i \in DOMAIN c.node}

\* C11 as stated: without a table, a template, or the name used as one, with a
\* placeholder of an axis the node does not bind fails with the same error kind
\* in the template branch and in the name branch, the template-format error,
\* and when it is the substitution that fails the error cites that axis.
C11_UnboundAxisSameError ==
    (kind = "resolve" /\ result.exc # "pending" /\ ~call.has_fnames /\ Unbound(call) # {}) =>
        /\ result.exc = "ValueError"
        /\ _check_template(TemplateOf(call), call.node).exc = "none" /\ result.arg # <<>> =>
               result.arg \in Unbound(call)

\* the key C12 states: the value of the only axis, else the values in axis order
C12_Key(node) ==
    IF Len(node) = 1 THEN <<"str", node[1][2]>>
    ELSE <<"tuple", [i \in 1..Len(node) |-> node[i][2]]>>

\* C12: with a table the call returns the table's entry for the key of the
\* node, or the name when the table has no such key, whatever the template is;
\* the key is the value itself for a node of one axis and the tuple of the
\* values in axis order for any other node.
C12_TableLookup ==
    (kind = "resolve" /\ result.exc # "pending" /\ call.has_fnames) =>
        /\ result.exc = "none"
        /\ C12_Key(call.node) \in DOMAIN call.fnames =>
               result.filename = call.fnames[C12_Key(call.node)]
        /\ C12_Key(call.node) \notin DOMAIN call.fnames => result.filename = call.name
        /\ result = resolve_user_filename(call.name, call.node, call.fnames, TRUE,
                                          <<>>, FALSE)

\* a node of one axis whose value is in the table, a template given as well
C12_Witness ==
    /\ kind = "resolve"
    /\ result.exc = "none"
    /\ call.has_fnames /\ call.has_template
    /\ Len(call.node) = 1
    /\ <<"str", call.node[1][2]>> \in DOMAIN call.fnames
    /\ result.filename = call.fnames[<<"str", call.node[1][2]>>]
    /\ result.filename # call.name

\* C13 as stated: for a TempObjManager on F the input resource's file is
\* F + "._i" and the output resource's file is F + "._o": get_obj() returns the
\* object stored at F + "._i", None when there is no such file, and a
\* finalize(value) that returns has written value to F + "._o".
C13_SlotsAsStated ==
    kind = "obj" =>
        /\ last.op = "get_obj" =>
               last.ret = IF fs[TempObjManager_filename \o <<"._i">>].kind = "file"
                          THEN fs[TempObjManager_filename \o <<"._i">>].content
                          ELSE None
        /\ (last.op = "finalize" /\ last.exc = "none") =>
               fs[TempObjManager_filename \o <<"._o">>]
                   = File(pickle_dump(Live(last.arg)), last.now)

\* C14 as stated: the sidecar that a successful touch() or finalize() of the
\* TempFileResource on F leaves behind, and whose time createtime() reports
\* once the primary file is gone, is F + ".placeholder".
C14_PlaceholderAsStated ==
    (kind = "temp" /\ last.marked) =>
        /\ fs[TempFileResource_filename \o <<".placeholder">>].kind = "file"
        /\ fs[TempFileResource_filename].kind = "absent" =>
               TempFileResource_createtime(fs, cache, now).ret
                   = fs[TempFileResource_filename \o <<".placeholder">>].mtime

\* C14 amended: the sidecar that a successful touch() or finalize() of the
\* TempFileResource on F leaves behind, and whose time createtime() reports
\* once the primary file is gone, is F + "._placeholder"; no operation creates
\* F + ".placeholder".
C14_PlaceholderSuffix ==
    kind = "temp" =>
        /\ fs[TempFileResource_filename \o <<".placeholder">>].kind = "absent"
        /\ last.marked =>
               /\ fs[TempFileResource_filename \o <<"._placeholder">>].kind = "file"
               /\ fs[TempFileResource_filename].kind = "absent" =>
                      TempFileResource_createtime(fs, cache, now).ret
                          = fs[TempFileResource_filename \o <<"._placeholder">>].mtime

\* a touch of a resource without primary file wrote the sidecar, and
\* createtime() reports the sidecar's time
C14_Witness ==
    /\ kind = "temp"
    /\ last.op = "touch"
    /\ last.exc = "none"
    /\ fs[TempFileResource_filename].kind = "absent"
    /\ fs[TempFileResource_filename \o <<"._placeholder">>].kind = "file"
    /\ TempFileResource_createtime(fs, cache, now).ret = last.now

\* C15 as stated: after any sequence of operations of a resource, every
\* stat-cache entry that is present agrees with the state of its path on the
\* filesystem: the cached existence and the cached time are the current ones.
C15_CacheAgrees ==
    kind \in Kinds =>
        \A p \in Paths :
            cache[p].cached =>
                /\ cache[p].exists = os_stat(fs, p).exists
                /\ cache[p].mtime = os_stat(fs, p).mtime

\* C17: touch() of a TempFileResource whose primary file does not exist raises
\* nothing and writes only the placeholder: every other path is as before, the
\* primary stays absent and exists() stays false, and createtime() is then the
\* placeholder's new time, which is not earlier than createtime() was before.
C17_TouchMissingPrimary ==
    (kind = "temp" /\ last.op = "touch"
        /\ last.fs[TempFileResource_filename].kind = "absent") =>
        /\ last.exc = "none"
        /\ \A p \in Paths \ {placeholder_filename} : fs[p] = last.fs[p]
        /\ fs[placeholder_filename].kind = "file"
        /\ fs[placeholder_filename].mtime = last.now
        /\ TempFileResource_exists(fs, cache, now).ret = 0
        /\ TempFileResource_createtime(fs, cache, now).ret = fs[placeholder_filename].mtime
        /\ TempFileResource_createtime(fs, cache, now).ret
               >= TempFileResource_createtime(last.fs, last.cache, last.now).ret

\* a touch without primary file that moved an older placeholder's time forward
C17_Witness ==
    /\ kind = "temp"
    /\ last.op = "touch"
    /\ last.exc = "none"
    /\ last.fs[TempFileResource_filename].kind = "absent"
    /\ last.fs[placeholder_filename].kind = "file"
    /\ last.fs[placeholder_filename].mtime < fs[placeholder_filename].mtime
    /\ fs[TempFileResource_filename].kind = "absent"

\* the last call was a finalize of the TempObjManager that returned
ObjFinalized == kind = "obj" /\ last.op = "finalize" /\ last.exc = "none"

\* C20 as stated: after a finalize(v) of a TempObjManager that returned, the
\* input slot exists, get_obj() returns a stored value s with obj_equal(v, s)
\* true, and the output slot holds exactly v.
C20_StoredEqualsLast ==
    ObjFinalized =>
        /\ TempObjResource_exists(fs, cache, now, TRUE).ret = 1
        /\ TempObjManager_get_obj(fs, cache, now).ret # None
        /\ obj_equal(Live(last.arg), pickle_load(TempObjManager_get_obj(fs, cache, now).ret))
        /\ fs[output_filename].kind = "file"
        /\ fs[output_filename].content = pickle_dump(Live(last.arg))

\* C20 amended: after a finalize(v) of a TempObjManager that returned, the
\* input slot exists, the output slot holds exactly v, and get_obj() returns a
\* stored value s with obj_equal(v, s) true, unless v does not compare equal to
\* its own unpickled copy: then s is that copy of v.
C20_StoredEqualsOrCopy ==
    ObjFinalized =>
        /\ TempObjResource_exists(fs, cache, now, TRUE).ret = 1
        /\ TempObjManager_get_obj(fs, cache, now).ret # None
        /\ \/ obj_equal(Live(last.arg), pickle_load(TempObjManager_get_obj(fs, cache, now).ret))
           \/ /\ ~obj_equal(Live(last.arg), pickle_load(pickle_dump(Live(last.arg))))
              /\ TempObjManager_get_obj(fs, cache, now).ret = pickle_dump(Live(last.arg))
        /\ fs[output_filename].kind = "file"
        /\ fs[output_filename].content = pickle_dump(Live(last.arg))

\* a finalize that kept an older stored value equal to the new one, the
\* output slot holding the new one
C20_Witness ==
    /\ ObjFinalized
    /\ last.fs[input_filename].kind = "file"
    /\ fs[input_filename] = last.fs[input_filename]
    /\ fs[input_filename].content # pickle_dump(Live(last.arg))
    /\ fs[output_filename].content = pickle_dump(Live(last.arg))

\* the hook of a declines or is missing: it gives no answer
NoAnswer(a, b) == eq_hook(a, b) \notin {"True", "False"}

\* C18 as stated: obj_equal(a, b) is the three-tier comparison: the result of
\* a's equality hook when the hook exists and does not decline; otherwise, for
\* two values of one type with fields, the equality of their fields; otherwise
\* (the types differ, or the type has no fields) the raw equality a == b.  A
\* hook that declines is never taken as the answer false.
C18_ThreeTier ==
    (kind = "equal" /\ result.exc = "none") =>
        result.equal =
            IF ~NoAnswer(call.obj1, call.obj2) THEN eq_hook(call.obj1, call.obj2) = "True"
            ELSE IF /\ Attr(call.obj1).class = Attr(call.obj2).class
                    /\ Attr(call.obj1).dict # None
            THEN Attr(call.obj1).dict = Attr(call.obj2).dict
            ELSE raw_equal(call.obj1, call.obj2)

\* C18 amended: obj_equal(a, b) is the result of a's equality hook when the
\* hook exists and does not decline; otherwise false when the types differ;
\* otherwise the equality of the fields when the type has fields, and the raw
\* equality a == b when it has none.  A hook that declines is never taken as
\* the answer false.
C18_TypesThenFields ==
    (kind = "equal" /\ result.exc = "none") =>
        result.equal =
            IF ~NoAnswer(call.obj1, call.obj2) THEN eq_hook(call.obj1, call.obj2) = "True"
            ELSE IF Attr(call.obj1).class # Attr(call.obj2).class THEN FALSE
            ELSE IF Attr(call.obj1).dict # None
            THEN Attr(call.obj1).dict = Attr(call.obj2).dict
            ELSE raw_equal(call.obj1, call.obj2)

\* two instances of one type whose hook declines and whose fields are equal
\* compare equal
C18_Witness ==
    /\ kind = "equal"
    /\ result.exc = "none"
    /\ eq_hook(call.obj1, call.obj2) = "NotImplemented"
    /\ call.obj1 # call.obj2
    /\ Attr(call.obj1).dict # None
    /\ result.equal

\* a finalize or touch of the TempFileResource is running statement by
\* statement, or was the last method that ran
TempCommit ==
    kind = "temp" /\ run.op \in {"TempFileResource.finalize", "TempFileResource.touch"}

\* C16 as stated: at no step of a TempFileResource.finalize or touch, and in
\* no state a crash between two steps leaves, does the primary file already
\* hold the new content or time while the placeholder is absent or carries a
\* different time.
C16_AllOrNothing ==
    (TempCommit /\ fs[TempFileResource_filename] # last.fs[TempFileResource_filename]) =>
        /\ fs[placeholder_filename].kind = "file"
        /\ fs[placeholder_filename].mtime = fs[TempFileResource_filename].mtime

\* C16 amended: at every step of a TempFileResource.finalize or touch the
\* primary file is either as it was before the operation or as the operation
\* commits it (finalize: the staged file, which is then gone; touch: the same
\* content under the time of the touch); the placeholder follows in later
\* steps, and once the operation has returned with a primary file the
\* placeholder exists and carries the primary file's time.
C16_PrimaryCommitsAtOnce ==
    TempCommit =>
        /\ run.op = "TempFileResource.finalize" =>
               \/ /\ fs[TempFileResource_filename] = last.fs[TempFileResource_filename]
                  /\ fs[Staging] = last.fs[Staging]
               \/ /\ last.fs[Staging].kind = "file"
                  /\ fs[TempFileResource_filename] = last.fs[Staging]
                  /\ fs[Staging] = Absent
        /\ run.op = "TempFileResource.touch" =>
               \/ fs[TempFileResource_filename] = last.fs[TempFileResource_filename]
               \/ /\ last.fs[TempFileResource_filename].kind = "file"
                  /\ \E t \in last.now..now :
                         fs[TempFileResource_filename]
                             = [last.fs[TempFileResource_filename] EXCEPT !.mtime = t]
        /\ (last.exc = "none" /\ fs[TempFileResource_filename].kind = "file") =>
               /\ fs[placeholder_filename].kind = "file"
               /\ fs[placeholder_filename].mtime = fs[TempFileResource_filename].mtime

\* a finalize between two steps: the staged file is already the primary file,
\* the placeholder still carries the time of the file before
C16_Witness ==
    /\ TempCommit
    /\ run.op = "TempFileResource.finalize"
    /\ run.pc # 0
    /\ fs[TempFileResource_filename] # last.fs[TempFileResource_filename]
    /\ fs[placeholder_filename].kind = "file"
    /\ fs[placeholder_filename].mtime # fs[TempFileResource_filename].mtime

\* the paths a statement changes on the filesystem
Mutated(e) ==
    CASE e.i \in {"touch", "saferemove", "remove", "write"} -> {e.p}
      [] e.i = "rename" -> {e.p, e.q}
      [] e.i = "copystat" -> {e.q}
      [] OTHER -> {}

\* a method of a resource is running statement by statement, or was the last
\* that ran
Operating == kind \in StepKinds /\ run.op \notin {"none", "job"}

\* C19 as stated: in every mutating operation of a resource, the statement
\* after a statement that changes a path on the filesystem, before the
\* operation returns and before any other statement, is the invalidation of
\* that path's entry in the stat cache.
C19_InvalidatedRightAfter ==
    Operating =>
        \A n \in 1..(Len(run.events) - 1) :
            Mutated(run.events[n]) # {} =>
                /\ run.events[n + 1].i = "invalidate"
                /\ run.events[n + 1].p \in Mutated(run.events[n])

\* C19 amended: in every mutating operation of a resource but
\* TempObjManager.finalize, a statement that changes a path of the resource on
\* the filesystem (the staging path excepted, which is never invalidated)
\* comes after an invalidation of that path's entry in the same operation,
\* with no read of that entry in between.  TempObjManager.finalize invalidates
\* the two slots after its writes, as its last statements before it returns,
\* and invalidates nothing when a write raises.
C19_InvalidatedBefore ==
    Operating =>
        IF run.op = "TempObjManager.finalize"
        THEN /\ \A n \in DOMAIN run.events :
                    run.events[n].i = "invalidate" =>
                        /\ \A m \in 1..(n - 1) : run.events[m].i # "invalidate" =>
                               run.events[m].i \in {"write", "exists", "compare"}
                        /\ \A m \in (n + 1)..Len(run.events) :
                               run.events[m].i \in {"invalidate", "return"}
             /\ last.exc = "none" =>
                    \A n \in DOMAIN run.events : \A x \in Mutated(run.events[n]) :
                        \E m \in (n + 1)..Len(run.events) :
                            run.events[m].i = "invalidate" /\ run.events[m].p = x
             /\ last.exc \notin {"none", "running", "crash"} =>
                    \A n \in DOMAIN run.events : run.events[n].i # "invalidate"
        ELSE \A n \in DOMAIN run.events : \A x \in Mutated(run.events[n]) \ {Staging} :
                 \E m \in 1..(n - 1) :
                     /\ run.events[m].i = "invalidate"
                     /\ run.events[m].p = x
                     /\ \A j \in (m + 1)..(n - 1) :
                            ~(run.events[j].i = "exists" /\ run.events[j].p = x)

\* a touch of a TempFileResource with a primary file has returned: it touched
\* the primary file and removed, re-created and stamped the placeholder
C19_Witness ==
    /\ Operating
    /\ run.op = "TempFileResource.touch"
    /\ last.exc = "none"
    /\ \E n \in DOMAIN run.events : run.events[n].i = "copystat"
    /\ \E n \in DOMAIN run.events :
           run.events[n].i = "touch" /\ run.events[n].p = TempFileResource_filename

====
